---- MODULE Spec2Model ----
(***************************************************************************)
(* MyClassifier of custom_estimators.ipynb: a scikit-learn estimator that *)
(* wraps SVC.  The instance is modelled by its attribute dictionary       *)
(* (vars(self)); fit is split at its two attribute assignments so that    *)
(* the states between them are states of the model.                       *)
(*                                                                         *)
(* The scikit-learn helpers the class calls (check_X_y, check_array,      *)
(* check_is_fitted, SVC, ClassifierMixin.score, BaseEstimator.set_params) *)
(* are library code; they are modelled at their call sites by what they   *)
(* do on the inputs of the model.  Errors carry the names of the error    *)
(* taxonomy of the specification (all but NotFittedError are ValueError   *)
(* in Python, told apart by the check that raises them).                  *)
(*                                                                         *)
(* Around the class the notebook runs the common checks on it (a pytest   *)
(* session), sets the level of its logger, puts it in a pipeline and runs *)
(* a grid search over the pipeline.  Each of these has its own variables  *)
(* and its own specification: SpecClass and Spec (one instance),          *)
(* SpecFitPredict (one instance, with the arguments of its last fit),     *)
(* SpecTwin and SpecLog (two instances), SpecHarness, SpecPipe, SpecGrid. *)
(***************************************************************************)
EXTENDS Integers, Sequences, FiniteSets, TLC

VARIABLES obj, pc, frame, last, fitData, level, emitted, other, fitArgs,
          replay, session, results, pipe, pipeLast, gs, fitCall

\* the instance the calls are made on and the call in progress
current == <<obj, pc, frame, last, fitData>>

\* the level of the logger "mymodule" and the records the last call emitted
logging == <<level, emitted>>

\* the second instance of the program and the history kept of the two
twin == <<other, fitArgs, replay>>

\* the test session of the common checks
harness == <<session, results>>

\* the pipeline of line 337, the last call that set a parameter of it, and
\* the grid search over it
composer == <<pipe, pipeLast, gs>>

\* history: the arguments of the most recent call of fit on the instance
\* and how the call ended
calls == <<fitCall>>

\* the variables outside the instance the calls are made on
aside == <<twin, harness, composer, calls>>

vars == <<obj, pc, frame, last, fitData, logging, aside>>

\* ---------------------------------------------------------------- bounds
MaxSamples == 2
MaxFeatures == 2
\* the checks parametrize_with_checks yields (40 in the run of the notebook)
NChecks == 4

\* ------------------------------------------------------------ input sets
\* values of the constructor parameter C (1 is the default of __init__)
CValues == {1, 100}
Labels == {0, 1, 2}
FeatureValues == {0, 1}
\* stands for a value that is not finite (np.nan)
NaN == -1

\* the samples of k features the inputs are drawn from: one value in every
\* column
Rows(k) == { [i \in 1..k |-> v] : v \in FeatureValues }

\* a 2-D feature container of shape (Len(rows), d)
Matrices ==
    UNION { { [d |-> k, rows |-> r] : r \in [1..n -> Rows(k)] }
            : <<n, k>> \in (0..MaxSamples) \X (0..MaxFeatures) }

\* a label container: 1-D of shape (Len(vals),) when cols = 0, 2-D of shape
\* (Len(vals), cols) otherwise, with vals[i] in every column of row i
LabelVectors ==
    { [cols |-> 0, vals |-> v] :
      v \in UNION { [1..n -> Labels] : n \in 0..MaxSamples } }

\* 1-D containers that hold nothing but NaN
NaNVectors ==
    { [cols |-> 0, vals |-> [i \in 1..n |-> NaN]] : n \in 1..MaxSamples }

\* 2-D containers of two columns, of one label or of NaN
ColumnVectors ==
    { [cols |-> 2, vals |-> [i \in 1..n |-> v]] :
      <<n, v>> \in (1..MaxSamples) \X {0, NaN} }

\* the label containers the calls are made with
Vectors == LabelVectors \cup NaNVectors \cup ColumnVectors

NoVector == [cols |-> 0, vals |-> <<>>]

NSamples(X) == Len(X.rows)

\* the number of rows of a label container
YLen(y) == Len(y.vals)

\* np.ravel(y): the 1-D sequence of the values of a container that is 1-D
\* or a single column
Ravel(y) == y.vals

Range(s) == { s[i] : i \in DOMAIN s }

\* ------------------------------------------------------- library helpers
\* the error check_array raises on X, "none" when X passes; the matrices of
\* the model are 2-D and finite, so that only the minimum counts
\* (ensure_min_samples=1, then ensure_min_features=1) can fail
CheckArray(X) ==
    IF NSamples(X) < 1 THEN "EmptyInputError"
    ELSE IF X.d < 1 THEN "EmptyInputError"
    ELSE "none"

\* column_or_1d(y): a container of shape (n,) or (n, 1) passes, one of
\* more columns raises
ColumnOr1d(y) == IF y.cols > 1 THEN "DimensionalityError" ELSE "none"

\* _assert_all_finite(y): raises when y holds NaN
AssertAllFinite(y) ==
    IF \E i \in DOMAIN y.vals : y.vals[i] = NaN THEN "InvalidValueError"
    ELSE "none"

\* the error check_X_y raises on y before it compares the sample counts
\* (multi_output=False): column_or_1d, then _assert_all_finite
CheckY(y) ==
    IF ColumnOr1d(y) # "none" THEN ColumnOr1d(y) ELSE AssertAllFinite(y)

\* check_X_y without its comparison of the two sample counts
CheckXy_NoLengthCheck(X, y) ==
    IF CheckArray(X) # "none" THEN CheckArray(X) ELSE CheckY(y)

\* the error check_X_y raises on (X, y), "none" when the pair passes:
\* X is validated first, then y, the lengths are compared last
\* (check_consistent_length)
CheckXy(X, y) ==
    IF CheckArray(X) # "none" THEN CheckArray(X)
    ELSE IF CheckY(y) # "none" THEN CheckY(y)
    ELSE IF NSamples(X) # YLen(y) THEN "ShapeMismatchError"
    ELSE "none"

\* a guard that never raises
CheckIsFitted_NeverRaises(o) == TRUE

\* attribute names with a trailing underscore
TrailingUnderscore == {"estimator_", "classes_"}

\* check_is_fitted(self) with attributes=None: passes when the instance has
\* any attribute whose name ends with an underscore
CheckIsFitted(o) == \E a \in DOMAIN o : a \in TrailingUnderscore

\* setattr(o, name, v)
SetAttr(o, name, v) ==
    [a \in (DOMAIN o) \cup {name} |-> IF a = name THEN v ELSE o[a]]

\* the sorted sequence of the elements of a finite set of integers
RECURSIVE SortedSeq(_)
SortedSeq(S) ==
    IF S = {} THEN <<>>
    ELSE LET m == CHOOSE x \in S : \A z \in S : x <= z
         IN <<m>> \o SortedSeq(S \ {m})

\* np.unique(y): the distinct labels, sorted
Unique(y) == SortedSeq(Range(y))

\* ------------------------------------------------------------------- SVC
\* the number of classes SVC.fit needs
MinClasses == 2

\* SVC.fit raises when y holds fewer than two classes
SVCFitError(X, y) ==
    IF Cardinality(Range(y)) < MinClasses THEN "FitError" ELSE "none"

\* the samples of X whose label is l
SamplesOf(X, y, l) == { X.rows[i] : i \in { j \in DOMAIN y : y[j] = l } }

\* the fitted SVC: its parameter, classes_, the number of features seen
\* (shape_fit_) and, class by class, the training samples it keeps
\* (support_vectors_)
SVCFit(c, X, y) ==
    [C |-> c, classes |-> Unique(y), d |-> X.d,
     sv |-> [k \in DOMAIN Unique(y) |-> SamplesOf(X, y, Unique(y)[k])]]

\* number of columns in which two samples differ
Dist(r1, r2) ==
    Cardinality({ i \in (DOMAIN r1) \cap (DOMAIN r2) : r1[i] # r2[i] })

MinOf(S) == CHOOSE x \in S : \A z \in S : x <= z

\* per-class score of one sample: SVC is an opaque deterministic classifier;
\* its decision values are stood in for by the negated distance to the
\* nearest training sample of the class
ClassScore(est, row, k) ==
    0 - MinOf({ Dist(row, v) : v \in est.sv[k] })

\* one score for each class (decision_function_shape='ovr')
ClassScores(est, row) ==
    [k \in DOMAIN est.classes |-> ClassScore(est, row, k)]

\* SVC.decision_function for one sample: with two classes a single value,
\* positive when the sample is on the side of the second class; with more
\* classes one score for each
SVCDecisionRow(est, row) ==
    IF Len(est.classes) = MinClasses
    THEN ClassScore(est, row, 2) - ClassScore(est, row, 1)
    ELSE ClassScores(est, row)

\* argmax, first maximum wins
ArgMax(s) ==
    CHOOSE k \in DOMAIN s :
        /\ \A j \in DOMAIN s : s[j] <= s[k]
        /\ \A j \in DOMAIN s : j < k => s[j] < s[k]

\* the position of the winning class returned in place of its label
SVCPredictRow_Index(est, row) == ArgMax(ClassScores(est, row)) - 1

SVCPredictRow(est, row) == est.classes[ArgMax(ClassScores(est, row))]

\* a wrapped estimator that does not compare the number of features
SVCShapeError_NoCheck(est, X) == "none"

\* SVC.predict / SVC.decision_function raise when the number of features
\* differs from the one seen by fit
SVCShapeError(est, X) ==
    IF X.d # est.d THEN "FeatureShapeMismatchError" ELSE "none"

\* a prediction for the first sample only
SVCPredict_FirstOnly(est, X) == << SVCPredictRow(est, X.rows[1]) >>

SVCPredict(est, X) == [i \in DOMAIN X.rows |-> SVCPredictRow(est, X.rows[i])]

SVCDecision(est, X) == [i \in DOMAIN X.rows |-> SVCDecisionRow(est, X.rows[i])]

\* ---------------------------------------------------------- MyClassifier
\* ---------------------------------------------------------------- logging
\* the levels of the logging module: those the notebook sets
\* (logging.DEBUG, logging.INFO), logging.NOTSET, which a logger can be set
\* to, and logging.WARNING, the level of the root logger, which
\* logging.basicConfig(format=FORMAT) of line 108 leaves as it is
NOTSET == 0
DEBUG == 10
INFO == 20
WARNING == 30
Levels == {NOTSET, DEBUG, INFO}

\* logger.getEffectiveLevel(): the level of the logger "mymodule" itself,
\* or, when that is NOTSET, the level of its parent, the root logger
EffectiveLevel(lvl) == IF lvl = NOTSET THEN WARNING ELSE lvl

\* logger.debug(...) for each of recs in turn: a record is emitted when
\* the logger is enabled for DEBUG, i.e. its effective level is not above
\* DEBUG
Emitted(lvl, recs) == IF EffectiveLevel(lvl) <= DEBUG THEN recs ELSE <<>>

\* the records of fit before the wrapped estimator is fitted, lines 117-118
FitStartRecords(c, n) ==
    << [msg |-> "C: ", arg |-> c], [msg |-> "fitting on samples", arg |-> n] >>

\* the record of fit after it, line 121
FitEndRecords == << [msg |-> "fit end/", arg |-> 0] >>

\* the record of predict (line 130) and of decision_function (line 136)
CallRecords(op, n) ==
    << [msg |-> IF op = "decision_function" THEN "decision function on samples"
                ELSE "predicting on samples", arg |-> n] >>

\* ------------------------------------------------------------- the class
\* an __init__ that also sets a fitted attribute (self.estimator_ = None)
MyClassifierInit_SetsEstimator(c) ==
    [a \in {"C", "estimator_"} |-> IF a = "C" THEN c ELSE "None"]

\* __init__(self, C): sets the parameter and nothing else
MyClassifierInit(c) == [a \in {"C"} |-> c]

NoMatrix == [d |-> 0, rows |-> <<>>]
NoFrame == [X |-> NoMatrix, y |-> <<>>]

\* history: whether a fit has returned and, of the arguments of the most
\* recent one that has, the number of features and the distinct labels
NoFit == [done |-> FALSE, d |-> 0, labels |-> {}]

\* history: the parameter and the arguments of the most recent fit that
\* returned on an instance; NoArgs when none has
NoArgs == [C |-> 0, X |-> NoMatrix, y |-> <<>>]

\* the record of the last call of fit, predict, decision_function or score:
\* the operation, the error raised ("none" when it returned, "running" inside
\* fit), the shape (n, d) of the features passed, the number m of labels
\* passed, the value returned
CallResult(op, err, X, m, labels, scores, acc) ==
    [op |-> op, err |-> err, n |-> NSamples(X), d |-> X.d, m |-> m, c |-> 0,
     labels |-> labels, scores |-> scores, acc |-> acc]

\* the record of the last call of __init__ or set_params with C=c
ParamResult(op, c) ==
    [op |-> op, err |-> "none", n |-> 0, d |-> 0, m |-> 0, c |-> c,
     labels |-> <<>>, scores |-> <<>>, acc |-> <<>>]

\* make_pipeline(SelectKBest(k=2), MyClassifier(C=.1)): the steps, named by
\* their lowercased class names, each with its constructor parameters.  The
\* values of C are held in tenths in the pipeline (0.1 is 1, 100 is 1000).
MakePipeline ==
    ("selectkbest" :> (("k" :> 2) @@ ("score_func" :> "f_classif")))
    @@ ("myclassifier" :> ("C" :> 1))

\* history: no call of fit has been made on the instance
NoFitCall == [X |-> NoMatrix, y |-> NoVector, err |-> "never"]

\* no parameter of the pipeline has been set
NoPipeCall == [step |-> "", param |-> "", value |-> 0, err |-> "none"]

\* no grid search has been started: the state of a search, the number of
\* fits of every candidate, their mean test scores, best_index_, the
\* parameters of best_estimator_ and the number of times it was fitted
NoSearch == [phase |-> "none", fits |-> <<>>, scores |-> <<>>, best |-> 0,
             estimator |-> << >>, refits |-> 0]

\* history of the runs that make every call on both instances: whose turn
\* it is, the call the first of the two received, what it returned or
\* raised and the records it emitted
NoReplay == [phase |-> "lead", op |-> "none", c |-> 0, X |-> NoMatrix,
             y |-> NoVector, last |-> ParamResult("none", 0), emitted |-> <<>>]

Init ==
    /\ \E c \in CValues :
          /\ obj = MyClassifierInit(c)
          /\ last = ParamResult("init", c)
    /\ pc = "idle"
    /\ frame = NoFrame
    /\ fitData = NoFit
    /\ level = DEBUG
    /\ emitted = <<>>
    /\ other = [obj |-> MyClassifierInit(1), fitData |-> NoFit]
    /\ fitArgs = [self |-> NoArgs, other |-> NoArgs]
    /\ replay = NoReplay
    /\ session = "none"
    /\ results = <<>>
    /\ pipe = MakePipeline
    /\ pipeLast = NoPipeCall
    /\ gs = NoSearch
    /\ fitCall = NoFitCall

\* clf = MyClassifier(C=c): a new instance replaces the one tracked
Construct(c) ==
    /\ pc = "idle"
    /\ obj' = MyClassifierInit(c)
    /\ last' = ParamResult("init", c)
    /\ fitData' = NoFit
    /\ emitted' = <<>>
    /\ UNCHANGED <<pc, frame, level>>

\* clf.set_params(C=c)
SetParams(c) ==
    /\ pc = "idle"
    /\ obj' = SetAttr(obj, "C", c)
    /\ last' = ParamResult("set_params", c)
    /\ emitted' = <<>>
    /\ UNCHANGED <<pc, frame, fitData, level>>

\* the error a fit call raises before line 120 has assigned: check_X_y at
\* line 116, then SVC.fit inside line 120; "none" when neither raises
FitError(X, y) ==
    LET err == CheckXy(X, y)
    IN IF err # "none" THEN err ELSE SVCFitError(X, Ravel(y))

\* the records a raising fit has emitted: none when check_X_y raises (line
\* 116), those of lines 117-118 when the wrapped estimator's fit does
FitRaiseEmitted(X, y) ==
    IF CheckXy(X, y) # "none" THEN <<>>
    ELSE Emitted(level, FitStartRecords(obj["C"], NSamples(X)))

\* a raising fit that drops the fitted attributes on its way out
FitRaise_Resets(X, y) ==
    /\ pc = "idle"
    /\ FitError(X, y) # "none"
    /\ obj' = MyClassifierInit(obj["C"])
    /\ last' = CallResult("fit", FitError(X, y), X, YLen(y), <<>>, <<>>, <<>>)
    /\ emitted' = FitRaiseEmitted(X, y)
    /\ UNCHANGED <<pc, frame, fitData, level>>

\* a fit that assigns the wrapped estimator before it fits it
\* (self.estimator_ = SVC(C=self.C); self.estimator_.fit(X, y))
FitRaise_AssignsFirst(X, y) ==
    /\ pc = "idle"
    /\ FitError(X, y) # "none"
    /\ obj' = IF CheckXy(X, y) # "none" THEN obj
              ELSE SetAttr(obj, "estimator_",
                           [C |-> obj["C"], classes |-> <<>>, d |-> 0, sv |-> <<>>])
    /\ last' = CallResult("fit", FitError(X, y), X, YLen(y), <<>>, <<>>, <<>>)
    /\ emitted' = FitRaiseEmitted(X, y)
    /\ UNCHANGED <<pc, frame, fitData, level>>

\* fit, lines 116-120, raising: the exception leaves fit before the
\* assignment of line 120 is made
FitRaise(X, y) ==
    /\ pc = "idle"
    /\ LET err == FitError(X, y)
       IN /\ err # "none"
          /\ last' = CallResult("fit", err, X, YLen(y), <<>>, <<>>, <<>>)
    /\ emitted' = FitRaiseEmitted(X, y)
    /\ UNCHANGED <<obj, pc, frame, fitData, level>>

\* a fit that writes the parameter back (self.C = 1)
FitEstimator_SetsC(X, y) ==
    /\ pc = "idle"
    /\ FitError(X, y) = "none"
    /\ obj' = SetAttr(SetAttr(obj, "C", 1), "estimator_", SVCFit(1, X, Ravel(y)))
    /\ frame' = [X |-> X, y |-> Ravel(y)]
    /\ last' = CallResult("fit", "running", X, YLen(y), <<>>, <<>>, <<>>)
    /\ emitted' = Emitted(level, FitStartRecords(obj["C"], NSamples(X)))
    /\ pc' = "L123"
    /\ UNCHANGED <<fitData, level>>

\* a fit that adds the new samples to those of the previous fit
FitEstimator_Accumulates(X, y) ==
    /\ pc = "idle"
    /\ FitError(X, y) = "none"
    /\ LET new == SVCFit(obj["C"], X, Ravel(y))
           kept(l) == IF "estimator_" \in DOMAIN obj
                         /\ obj["estimator_"].d = X.d
                      THEN UNION { obj["estimator_"].sv[k] :
                                   k \in { j \in DOMAIN obj["estimator_"].classes :
                                           obj["estimator_"].classes[j] = l } }
                      ELSE {}
       IN obj' = SetAttr(obj, "estimator_",
                  [new EXCEPT !.sv = [k \in DOMAIN new.classes |->
                                         new.sv[k] \cup kept(new.classes[k])]])
    /\ frame' = [X |-> X, y |-> Ravel(y)]
    /\ last' = CallResult("fit", "running", X, YLen(y), <<>>, <<>>, <<>>)
    /\ emitted' = Emitted(level, FitStartRecords(obj["C"], NSamples(X)))
    /\ pc' = "L123"
    /\ UNCHANGED <<fitData, level>>

\* a fit that keeps the estimator of an earlier fit
FitEstimator_KeepsFirst(X, y) ==
    /\ pc = "idle"
    /\ FitError(X, y) = "none"
    /\ obj' = IF "estimator_" \in DOMAIN obj THEN obj
              ELSE SetAttr(obj, "estimator_", SVCFit(obj["C"], X, Ravel(y)))
    /\ frame' = [X |-> X, y |-> Ravel(y)]
    /\ last' = CallResult("fit", "running", X, YLen(y), <<>>, <<>>, <<>>)
    /\ emitted' = Emitted(level, FitStartRecords(obj["C"], NSamples(X)))
    /\ pc' = "L123"
    /\ UNCHANGED <<fitData, level>>

\* fit, lines 116-120: self.estimator_ = SVC(C=self.C).fit(X, y)
FitEstimator(X, y) ==
    /\ pc = "idle"
    /\ FitError(X, y) = "none"
    /\ obj' = SetAttr(obj, "estimator_", SVCFit(obj["C"], X, Ravel(y)))
    /\ frame' = [X |-> X, y |-> Ravel(y)]
    /\ last' = CallResult("fit", "running", X, YLen(y), <<>>, <<>>, <<>>)
    /\ emitted' = Emitted(level, FitStartRecords(obj["C"], NSamples(X)))
    /\ pc' = "L123"
    /\ UNCHANGED <<fitData, level>>

\* a fit that sets classes_ only when the instance does not have it yet
FitClasses_KeepsFirst ==
    /\ pc = "L123"
    /\ obj' = IF "classes_" \in DOMAIN obj THEN obj
              ELSE SetAttr(obj, "classes_", obj["estimator_"].classes)
    /\ last' = CallResult("fit", "none", frame.X, Len(frame.y),
                          <<>>, <<>>, <<>>)
    /\ fitData' = [done |-> TRUE, d |-> frame.X.d, labels |-> Range(frame.y)]
    /\ emitted' = emitted \o Emitted(level, FitEndRecords)
    /\ pc' = "idle"
    /\ frame' = NoFrame
    /\ UNCHANGED level

\* fit, lines 121-124: logger.debug("fit end/");
\* self.classes_ = self.estimator_.classes_; return self
FitClasses ==
    /\ pc = "L123"
    /\ obj' = SetAttr(obj, "classes_", obj["estimator_"].classes)
    /\ last' = CallResult("fit", "none", frame.X, Len(frame.y),
                          <<>>, <<>>, <<>>)
    /\ fitData' = [done |-> TRUE, d |-> frame.X.d, labels |-> Range(frame.y)]
    /\ emitted' = emitted \o Emitted(level, FitEndRecords)
    /\ pc' = "idle"
    /\ frame' = NoFrame
    /\ UNCHANGED level

\* the error predict and decision_function raise on X, "none" when they
\* return: the guard, then check_array, then the wrapped estimator
GuardedError(o, X) ==
    IF ~CheckIsFitted(o) THEN "NotFittedError"
    ELSE IF CheckArray(X) # "none" THEN CheckArray(X)
    ELSE IF "estimator_" \notin DOMAIN o THEN "AttributeError"
    ELSE SVCShapeError(o["estimator_"], X)

\* the records predict (op = "predict") and decision_function emit on X:
\* one when the guard and check_array let the call through to its
\* logger.debug line
CallEmitted(op, o, X) ==
    IF CheckIsFitted(o) /\ CheckArray(X) = "none"
    THEN Emitted(level, CallRecords(op, NSamples(X)))
    ELSE <<>>

\* the value predict returns, lines 126-131
PredictLabels(o, X) ==
    IF GuardedError(o, X) # "none" THEN <<>>
    ELSE SVCPredict(o["estimator_"], X)

\* a predict that computes the labels only when the logger is enabled for
\* DEBUG
Predict_OnlyTraced(X) ==
    /\ pc = "idle"
    /\ last' = CallResult("predict", GuardedError(obj, X), X, 0,
                          IF EffectiveLevel(level) <= DEBUG
                          THEN PredictLabels(obj, X) ELSE <<>>,
                          <<>>, <<>>)
    /\ emitted' = CallEmitted("predict", obj, X)
    /\ UNCHANGED <<obj, pc, frame, fitData, level>>

Predict(X) ==
    /\ pc = "idle"
    /\ last' = CallResult("predict", GuardedError(obj, X), X, 0,
                          PredictLabels(obj, X), <<>>, <<>>)
    /\ emitted' = CallEmitted("predict", obj, X)
    /\ UNCHANGED <<obj, pc, frame, fitData, level>>

\* the value decision_function returns, lines 133-137
DecisionScores(o, X) ==
    IF GuardedError(o, X) # "none" THEN <<>>
    ELSE SVCDecision(o["estimator_"], X)

\* a decision_function that records the width of what it was passed
DecisionFunction_StoresWidth(X) ==
    /\ pc = "idle"
    /\ obj' = SetAttr(obj, "n_features_in_", X.d)
    /\ last' = CallResult("decision_function", GuardedError(obj, X), X, 0,
                          <<>>, DecisionScores(obj, X), <<>>)
    /\ emitted' = CallEmitted("decision_function", obj, X)
    /\ UNCHANGED <<pc, frame, fitData, level>>

DecisionFunction(X) ==
    /\ pc = "idle"
    /\ last' = CallResult("decision_function", GuardedError(obj, X), X, 0,
                          <<>>, DecisionScores(obj, X), <<>>)
    /\ emitted' = CallEmitted("decision_function", obj, X)
    /\ UNCHANGED <<obj, pc, frame, fitData, level>>

\* ClassifierMixin.score(X, y) = accuracy_score(y, self.predict(X)): predict
\* first, then the lengths of y and of the prediction are compared
\* (check_consistent_length), then the kinds of the two targets
\* (type_of_target): NaN in y raises its finite check, a y of more than one
\* column is of another kind than the 1-D prediction
ScoreError(o, X, y) ==
    IF GuardedError(o, X) # "none" THEN GuardedError(o, X)
    ELSE IF YLen(y) # NSamples(X) THEN "ShapeMismatchError"
    ELSE IF AssertAllFinite(y) # "none" THEN AssertAllFinite(y)
    ELSE IF y.cols > 1 THEN "TargetTypeError"
    ELSE "none"

\* the accuracy as <<correct, total>>
Accuracy(y, p) == << Cardinality({ i \in DOMAIN y : y[i] = p[i] }), Len(y) >>

ScoreValue(o, X, y) ==
    IF ScoreError(o, X, y) # "none" THEN <<>>
    ELSE Accuracy(Ravel(y), PredictLabels(o, X))

Score(X, y) ==
    /\ pc = "idle"
    /\ last' = CallResult("score", ScoreError(obj, X, y), X, YLen(y),
                          <<>>, <<>>, ScoreValue(obj, X, y))
    /\ emitted' = CallEmitted("predict", obj, X)
    /\ UNCHANGED <<obj, pc, frame, fitData, level>>

\* the operations the class defines itself, with __init__ and set_params
NextClass ==
    \/ \E c \in CValues : Construct(c) /\ UNCHANGED aside
    \/ \E c \in CValues : SetParams(c) /\ UNCHANGED aside
    \/ \E X \in Matrices, y \in Vectors : FitRaise(X, y) /\ UNCHANGED aside
    \/ \E X \in Matrices, y \in Vectors : FitEstimator(X, y) /\ UNCHANGED aside
    \/ FitClasses /\ UNCHANGED aside
    \/ \E X \in Matrices : Predict(X) /\ UNCHANGED aside
    \/ \E X \in Matrices : DecisionFunction(X) /\ UNCHANGED aside

SpecClass == Init /\ [][NextClass]_vars

\* and the score it inherits from ClassifierMixin
Next ==
    \/ NextClass
    \/ \E X \in Matrices, y \in Vectors : Score(X, y) /\ UNCHANGED aside

Spec == Init /\ [][Next]_vars

\* --------------------------------------------------- fit, then predict
\* the arguments a call of fit is made with in the runs that keep them:
\* the feature containers of one column, every label container
CallMatrices == { X \in Matrices : X.d = 1 }

\* calls of fit and predict on one instance, with the history of the
\* arguments of the most recent call of fit and of how it ended: the error
\* it raised, "running" inside the call, "none" once it has returned
NextFitPredict ==
    \/ \E c \in CValues :
          /\ Construct(c)
          /\ fitCall' = NoFitCall
          /\ UNCHANGED <<twin, harness, composer>>
    \/ \E X \in CallMatrices, y \in Vectors :
          /\ FitRaise(X, y)
          /\ fitCall' = [X |-> X, y |-> y, err |-> last'.err]
          /\ UNCHANGED <<twin, harness, composer>>
    \/ \E X \in CallMatrices, y \in Vectors :
          /\ FitEstimator(X, y)
          /\ fitCall' = [X |-> X, y |-> y, err |-> "running"]
          /\ UNCHANGED <<twin, harness, composer>>
    \/ /\ FitClasses
       /\ fitCall' = [fitCall EXCEPT !.err = "none"]
       /\ UNCHANGED <<twin, harness, composer>>
    \/ \E X \in Matrices : Predict(X) /\ UNCHANGED aside

SpecFitPredict == Init /\ [][NextFitPredict]_vars

\* ---------------------------------------------------------- two instances
\* the notebook holds several instances at once (clf of line 261, the step
\* of the pipeline of line 337); obj is the instance the calls are made on,
\* other the second one.  Switch: the caller turns to the other instance.
Switch ==
    /\ pc = "idle"
    /\ obj' = other.obj
    /\ fitData' = other.fitData
    /\ other' = [obj |-> obj, fitData |-> fitData]
    /\ UNCHANGED <<pc, frame, last, logging>>

\* the inputs of the two-instance runs: the smallest training sets the
\* wrapped estimator can be fitted on, one sample for each of MinClasses
\* classes, over MaxFeatures columns, with 1-D labels
TwinMatrices ==
    { X \in Matrices : X.d = MaxFeatures /\ NSamples(X) = MinClasses }
TwinVectors == { y \in LabelVectors : YLen(y) = MinClasses }

\* the arguments of the fit that is returning
ReturningArgs == [C |-> obj["C"], X |-> frame.X, y |-> frame.y]

\* calls on either of two instances, with the history of what each was
\* last fitted on
NextTwin ==
    \/ \E c \in CValues :
          /\ Construct(c)
          /\ fitArgs' = [fitArgs EXCEPT !.self = NoArgs]
          /\ UNCHANGED <<other, replay, harness, composer, calls>>
    \/ \E c \in CValues : SetParams(c) /\ UNCHANGED aside
    \/ \E X \in TwinMatrices, y \in TwinVectors :
          FitRaise(X, y) /\ UNCHANGED aside
    \/ \E X \in TwinMatrices, y \in TwinVectors :
          FitEstimator(X, y) /\ UNCHANGED aside
    \/ /\ FitClasses
       /\ fitArgs' = [fitArgs EXCEPT !.self = ReturningArgs]
       /\ UNCHANGED <<other, replay, harness, composer, calls>>
    \/ /\ Switch
       /\ fitArgs' = [self |-> fitArgs.other, other |-> fitArgs.self]
       /\ UNCHANGED <<replay, harness, composer, calls>>

SpecTwin == Init /\ [][NextTwin]_vars

\* ------------------------------------------------- the level of the logger
\* logger.setLevel(l), between calls
SetLevel(l) ==
    /\ pc = "idle"
    /\ level' = l
    /\ UNCHANGED <<current, emitted>>

\* the inputs of the runs that make every call twice: those of the
\* two-instance runs and the feature containers of at most one sample and
\* one column
LogMatrices ==
    TwinMatrices \cup { X \in Matrices : X.d <= 1 /\ NSamples(X) <= 1 }

\* the call op, with the arguments c or X, y, is the next of the run:
\* either the first instance receives it, or the second receives the call
\* the first has received
Paired(op, c, X, y) ==
    \/ /\ replay.phase = "lead"
       /\ replay' = [replay EXCEPT !.phase = "turn", !.op = op, !.c = c,
                                   !.X = X, !.y = y]
    \/ /\ replay.phase = "follow"
       /\ replay.op = op /\ replay.c = c /\ replay.X = X /\ replay.y = y
       /\ replay' = [replay EXCEPT !.phase = "lead"]

\* two instances receive the same calls, every call first on one and then
\* on the other, with the level of the logger set to anything between any
\* two calls; a new instance is constructed in the place of each of the two
NextLog ==
    \/ \E l \in Levels : SetLevel(l) /\ UNCHANGED aside
    \/ \E c \in CValues :
          /\ Paired("init", c, NoMatrix, NoVector)
          /\ Construct(c)
          /\ UNCHANGED <<other, fitArgs, harness, composer, calls>>
    \/ \E X \in LogMatrices, y \in TwinVectors :
          /\ Paired("fit", 0, X, y)
          /\ FitRaise(X, y)
          /\ UNCHANGED <<other, fitArgs, harness, composer, calls>>
    \/ \E X \in LogMatrices, y \in TwinVectors :
          /\ Paired("fit", 0, X, y)
          /\ FitEstimator(X, y)
          /\ UNCHANGED <<other, fitArgs, harness, composer, calls>>
    \/ FitClasses /\ UNCHANGED aside
    \/ \E X \in LogMatrices :
          /\ Paired("predict", 0, X, NoVector)
          /\ Predict(X)
          /\ UNCHANGED <<other, fitArgs, harness, composer, calls>>
    \/ \E X \in LogMatrices :
          /\ Paired("decision_function", 0, X, NoVector)
          /\ DecisionFunction(X)
          /\ UNCHANGED <<other, fitArgs, harness, composer, calls>>
    \/ /\ replay.phase = "turn"
       /\ Switch
       /\ replay' = [replay EXCEPT !.phase = "follow", !.last = last,
                                   !.emitted = emitted]
       /\ UNCHANGED <<fitArgs, harness, composer, calls>>

\* both instances start as MyClassifier()
InitLog == Init /\ obj = other.obj

SpecLog == InitLog /\ [][NextLog]_vars

\* ------------------------------------------------------ the common checks
\* test_sklearn_compatible_estimator is parametrized with the checks
\* parametrize_with_checks([MyClassifier]) yields; pytest (ipytest.run() at
\* line 227) calls it once for every check it collected and reports one
\* outcome for each.  What a check finds is an input of the model.
Outcomes == {"passed", "failed", "skipped"}

\* ipytest.run(): the checks are collected, none has run
StartSession ==
    /\ session = "none"
    /\ session' = "running"
    /\ results' = <<>>

\* a session that stops at the first failure (pytest -x)
RunCheck_FailFast(outcome) ==
    /\ session = "running"
    /\ Len(results) < NChecks
    /\ results' = Append(results, [check |-> Len(results) + 1,
                                    outcome |-> outcome])
    /\ session' = IF outcome = "failed" THEN "finished" ELSE session

\* the next collected check is called: check(estimator) returns (passed),
\* raises an AssertionError or another exception (failed) or raises SkipTest
\* (skipped); the outcome is reported and the session goes on
RunCheck(outcome) ==
    /\ session = "running"
    /\ Len(results) < NChecks
    /\ results' = Append(results, [check |-> Len(results) + 1,
                                    outcome |-> outcome])
    /\ UNCHANGED session

\* every collected check has been called: the summary line is printed
FinishSession ==
    /\ session = "running"
    /\ Len(results) = NChecks
    /\ session' = "finished"
    /\ UNCHANGED results

NextHarness ==
    \/ StartSession /\ UNCHANGED <<current, logging, twin, composer, calls>>
    \/ \E outcome \in Outcomes : RunCheck(outcome) /\ UNCHANGED <<current, logging, twin, composer, calls>>
    \/ FinishSession /\ UNCHANGED <<current, logging, twin, composer, calls>>

\* pytest runs its loop over the collected items to the end
SpecHarness == Init /\ [][NextHarness]_vars /\ WF_vars(NextHarness)

\* the checks that were called and returned or raised
Ran == { i \in DOMAIN results : results[i].outcome # "skipped" }

\* ---------------------------------------------------- pipeline parameters
\* get_params(deep=True) of the pipeline, restricted to the parameters of
\* its steps: the value at the path <step>__<param>
GetParam(p, step, param) == p[step][param]

\* the paths <step>__<param> that name a parameter of a step
ValidPaths(p) == { <<st, pa>> \in (DOMAIN p) \X {"k", "C", "score_func"} :
                   pa \in DOMAIN p[st] }

\* the error set_params raises on <step>__<param>: BaseEstimator.set_params
\* looks the step up in get_params() of the pipeline, then the step's own
\* set_params looks the parameter up in its get_params(); both checks come
\* before any setattr
PathError(p, step, param) ==
    IF step \notin DOMAIN p THEN "UnknownParameterError"
    ELSE IF param \notin DOMAIN p[step] THEN "UnknownParameterError"
    ELSE "none"

\* the pipeline after set_params(<step>__<param>=v) on a valid path
SetParam(p, step, param, v) ==
    [p EXCEPT ![step] = [p[step] EXCEPT ![param] = v]]

\* the names and values set_params is called with: the steps of the
\* pipeline and one that is not there, their parameters and one no step has
StepNames == {"selectkbest", "myclassifier", "pca"}
ParamNames == {"k", "C", "score_func", "gamma"}
ParamValues(param) ==
    IF param = "score_func" THEN {"f_classif", "chi2"}
    ELSE {1, 2, 5, 10, 20, 1000}

\* a set_params that sets the attribute without looking the name up
PipeSetParams_NoLookup(step, param, v) ==
    /\ pipe' = IF step \in DOMAIN pipe
               THEN [pipe EXCEPT ![step] =
                        [pa \in (DOMAIN pipe[step]) \cup {param} |->
                            IF pa = param THEN v ELSE pipe[step][pa]]]
               ELSE pipe
    /\ pipeLast' = [step |-> step, param |-> param, value |-> v, err |-> "none"]
    /\ UNCHANGED gs

\* pipe.set_params(**{step + "__" + param: v})
PipeSetParams(step, param, v) ==
    /\ pipe' = IF PathError(pipe, step, param) = "none"
               THEN SetParam(pipe, step, param, v)
               ELSE pipe
    /\ pipeLast' = [step |-> step, param |-> param, value |-> v,
                    err |-> PathError(pipe, step, param)]
    /\ UNCHANGED gs

NextPipe ==
    \E step \in StepNames, param \in ParamNames :
        \E v \in ParamValues(param) :
            PipeSetParams(step, param, v) /\ UNCHANGED <<current, logging, twin, harness, calls>>

SpecPipe == Init /\ [][NextPipe]_vars

\* ------------------------------------------------------------ grid search
\* param_grid of lines 367-368, C in tenths
GridK == <<1, 2, 5, 10, 20>>
GridC == <<1, 10, 1000>>

\* list(ParameterGrid(param_grid)): the keys are sorted, so that
\* myclassifier__C comes first, and the product runs over the last key
\* fastest
Candidates ==
    [i \in 1..(Len(GridC) * Len(GridK)) |->
        [C |-> GridC[((i - 1) \div Len(GridK)) + 1],
         k |-> GridK[((i - 1) % Len(GridK)) + 1]]]

\* the folds of the default cross-validation (cv=None: 5 folds)
NSplits == 5

\* the mean test scores a candidate can get
ScoreValues == {0, 1}

\* clone(pipe).set_params(**candidate)
WithCandidate(p, cand) ==
    SetParam(SetParam(p, "myclassifier", "C", cand.C), "selectkbest", "k", cand.k)

Max(s) == CHOOSE v \in Range(s) : \A w \in Range(s) : w <= v

\* the last of the best-scoring candidates
BestIndex_Last(scores) ==
    LET best == Max(scores)
    IN CHOOSE i \in DOMAIN scores :
          /\ scores[i] = best
          /\ \A j \in DOMAIN scores : j > i => scores[j] < best

\* best_index_ = rank_test_score.argmin(): the ranks are those of
\* rankdata(-mean, method="min"), argmin returns the first minimum
BestIndex(scores) ==
    LET best == Max(scores)
    IN CHOOSE i \in DOMAIN scores :
          /\ scores[i] = best
          /\ \A j \in DOMAIN scores : j < i => scores[j] < best

\* GridSearchCV(pipe, param_grid=param_grid).fit(X_train, y_train) is called:
\* the candidates are listed, none is fitted yet
GridSearchStart ==
    /\ gs.phase = "none"
    /\ gs' = [gs EXCEPT !.phase = "search",
                         !.fits = [i \in DOMAIN Candidates |-> 0]]
    /\ UNCHANGED <<pipe, pipeLast>>

\* the candidate and fold of the next _fit_and_score job: candidate by
\* candidate, every fold of each
NextJob == CHOOSE i \in DOMAIN gs.fits :
              /\ gs.fits[i] < NSplits
              /\ \A j \in DOMAIN gs.fits : j < i => gs.fits[j] = NSplits

\* one _fit_and_score job: a clone of the pipeline with the candidate's
\* parameters is fitted on the training part of one fold and scored
FitAndScore ==
    /\ gs.phase = "search"
    /\ ~(\A i \in DOMAIN gs.fits : gs.fits[i] = NSplits)
    /\ gs' = [gs EXCEPT !.fits[NextJob] = @ + 1]
    /\ UNCHANGED <<pipe, pipeLast>>

\* every job is done: the scores of the folds are averaged per candidate
\* and best_index_ is taken; what the candidates scored is an input
Rank ==
    /\ gs.phase = "search"
    /\ \A i \in DOMAIN gs.fits : gs.fits[i] = NSplits
    /\ \E scores \in [DOMAIN Candidates -> ScoreValues] :
          gs' = [gs EXCEPT !.phase = "refit", !.scores = scores,
                           !.best = BestIndex(scores)]
    /\ UNCHANGED <<pipe, pipeLast>>

\* refit=True: best_estimator_ = clone(pipe).set_params(**best_params_),
\* fitted on the whole of X_train, y_train
Refit ==
    /\ gs.phase = "refit"
    /\ gs' = [gs EXCEPT !.phase = "done",
                         !.estimator = WithCandidate(pipe, Candidates[gs.best]),
                         !.refits = @ + 1]
    /\ UNCHANGED <<pipe, pipeLast>>

NextGrid ==
    \/ GridSearchStart /\ UNCHANGED <<current, logging, twin, harness, calls>>
    \/ FitAndScore /\ UNCHANGED <<current, logging, twin, harness, calls>>
    \/ Rank /\ UNCHANGED <<current, logging, twin, harness, calls>>
    \/ Refit /\ UNCHANGED <<current, logging, twin, harness, calls>>

SpecGrid == Init /\ [][NextGrid]_vars

\* ------------------------------------------------------------ vocabulary
FittedAttrs == {"estimator_", "classes_"}

\* both fitted attributes are present
AllFitted(o) == FittedAttrs \subseteq DOMAIN o

GuardedOps == {"predict", "decision_function", "score"}

\* the features of the last call pass check_array
LastXValid == last.n >= 1 /\ last.d >= 1

\* ---------------------------------------------------------------- claims

\* C1: on an instance on which no fit has completed, predict,
\* decision_function and score raise NotFittedError and return nothing,
\* whatever the features passed.
C1_UnfittedRaisesNotFitted ==
    (pc = "idle" /\ ~fitData.done /\ last.op \in GuardedOps) =>
        /\ last.err = "NotFittedError"
        /\ last.labels = <<>> /\ last.scores = <<>> /\ last.acc = <<>>

\* predict was called with valid features on a never-fitted instance
C1_Witness ==
    /\ ~fitData.done /\ last.op = "predict" /\ LastXValid
    /\ last.err = "NotFittedError"

\* C2: in every state, those inside a fit call included, in which the guard
\* check_is_fitted(self) accepts the instance, estimator_ and classes_ are
\* both present.
C2_GuardImpliesAllFitted == CheckIsFitted(obj) => AllFitted(obj)

\* C3: no step other than the construction of a new instance takes a Fitted
\* instance (accepted by the guard, both fitted attributes present) to one
\* that is not.
C3_NoFittedToUnfitted ==
    [][ last'.op # "init" =>
            /\ (CheckIsFitted(obj) => CheckIsFitted(obj'))
            /\ (AllFitted(obj) => AllFitted(obj')) ]_vars

\* a fit raised on a fitted instance, which is still fitted
C3_Witness ==
    /\ fitData.done /\ last.op = "fit" /\ last.err = "FitError"
    /\ CheckIsFitted(obj) /\ AllFitted(obj)

\* C4: no step of a fit call, returning or raising, changes the parameter C;
\* C changes only in __init__ and set_params.
C4_FitLeavesParams ==
    [][ /\ (last'.op = "fit" => obj'["C"] = obj["C"])
        /\ (obj'["C"] # obj["C"] => last'.op \in {"init", "set_params"}) ]_vars

\* a fit returned on an instance whose C is not the default
C4_Witness ==
    /\ pc = "idle" /\ last.op = "fit" /\ last.err = "none"
    /\ obj["C"] = 100 /\ obj["estimator_"].C = 100

\* C5: right after construction the instance holds the parameter C passed to
\* __init__ and nothing else: no estimator_, no classes_, and the guard
\* rejects it.
C5_FreshInstanceUnfitted ==
    last.op = "init" =>
        /\ DOMAIN obj = {"C"}
        /\ obj["C"] = last.c
        /\ ~CheckIsFitted(obj)

\* an instance constructed with C=100
C5_Witness == last.op = "init" /\ last.c = 100 /\ obj["C"] = 100

\* C6: when a fit returns, estimator_ and classes_ are those of fitting the
\* current parameters on the arguments of that call alone, whatever was
\* fitted before.
C6_FitFromScratch ==
    [][ (pc = "L123" /\ pc' = "idle") =>
            /\ obj'["estimator_"] = SVCFit(obj'["C"], frame.X, frame.y)
            /\ obj'["classes_"] = Unique(frame.y) ]_vars

\* a fit is about to return on an instance that an earlier fit, on data of
\* another width, had fitted
C6_Witness ==
    /\ pc = "L123" /\ fitData.done /\ AllFitted(obj)
    /\ frame.X.d # fitData.d
    /\ obj["estimator_"] = SVCFit(obj["C"], frame.X, frame.y)

\* the features and the labels of the most recent call of fit pass their own
\* validation: at least one sample and one feature; one-dimensional or a
\* single column, without NaN
FitCallXValid == NSamples(fitCall.X) >= 1 /\ fitCall.X.d >= 1
FitCallYValid ==
    /\ fitCall.y.cols <= 1
    /\ \A i \in DOMAIN fitCall.y.vals : fitCall.y.vals[i] # NaN

\* a call of fit has been made on the instance
FitCalled == fitCall.err # "never"

\* C7 as stated: a fit call whose features and labels differ in their sample
\* counts raises ShapeMismatchError, whatever else holds of the arguments.
C7_MismatchAlwaysShapeError ==
    (FitCalled /\ NSamples(fitCall.X) # YLen(fitCall.y)) =>
        fitCall.err = "ShapeMismatchError"

\* C7 amended: a fit call whose features pass check_array, whose labels pass
\* column_or_1d and the finite check, and whose two sample counts differ
\* raises ShapeMismatchError, on an unfitted and on a fitted instance alike;
\* with valid features, labels of several columns raise DimensionalityError
\* and 1-D labels holding NaN raise InvalidValueError, whatever their count.
C7_ValidMismatchShapeError ==
    (FitCalled /\ FitCallXValid) =>
        /\ (FitCallYValid /\ NSamples(fitCall.X) # YLen(fitCall.y)) =>
              fitCall.err = "ShapeMismatchError"
        /\ fitCall.y.cols > 1 => fitCall.err = "DimensionalityError"
        /\ (fitCall.y.cols <= 1 /\ ~FitCallYValid) =>
              fitCall.err = "InvalidValueError"

\* a fit with 2 samples and 1 finite label raised ShapeMismatchError on a
\* fitted instance
C7_Witness ==
    /\ fitData.done /\ pc = "idle" /\ last.op = "fit"
    /\ NSamples(fitCall.X) = 2 /\ fitCall.y = [cols |-> 0, vals |-> <<1>>]
    /\ fitCall.err = "ShapeMismatchError" /\ last.err = "ShapeMismatchError"

\* C8 as stated: on a fitted instance predict and decision_function raise
\* FeatureShapeMismatchError whenever the features passed differ in their
\* number of features from those of the most recent fit that returned.
C8_MismatchAlwaysFeatureError ==
    (pc = "idle" /\ fitData.done /\ last.op \in {"predict", "decision_function"}
        /\ last.d # fitData.d) =>
        last.err = "FeatureShapeMismatchError"

\* C8 amended: so they do whenever the features passed pass check_array.
C8_ValidMismatchFeatureError ==
    (pc = "idle" /\ fitData.done /\ last.op \in {"predict", "decision_function"}
        /\ LastXValid /\ last.d # fitData.d) =>
        last.err = "FeatureShapeMismatchError"

\* predict raised on valid features of another width than the fitted one
C8_Witness ==
    /\ fitData.done /\ last.op = "predict" /\ LastXValid
    /\ last.d # fitData.d /\ last.err = "FeatureShapeMismatchError"

\* the most recent call of fit was made with valid features and labels of
\* equal sample counts
FitCallPairValid ==
    /\ FitCalled /\ FitCallXValid /\ FitCallYValid
    /\ NSamples(fitCall.X) = YLen(fitCall.y)

\* C9 as stated: after a call of fit with any valid pair of equal sample
\* counts, predict on valid features of n samples, of the width of the
\* features fit was called with, returns exactly n labels.
C9_FitThenPredictLength ==
    (pc = "idle" /\ last.op = "predict" /\ FitCallPairValid
        /\ LastXValid /\ last.d = fitCall.X.d) =>
        /\ last.err = "none"
        /\ Len(last.labels) = last.n

\* C9 amended: a call of fit with a valid pair of equal sample counts raises
\* FitError when the labels hold fewer than two classes, and returns
\* otherwise; after one that returned, predict on valid features of n
\* samples, of the width of the features fit was called with, returns
\* exactly n labels.
C9_PredictLength ==
    (pc = "idle" /\ FitCallPairValid) =>
        /\ fitCall.err \in {"none", "FitError"}
        /\ fitCall.err = "FitError" <=>
              Cardinality(Range(fitCall.y.vals)) < 2
        /\ (fitCall.err = "none" /\ last.op = "predict"
               /\ LastXValid /\ last.d = fitCall.X.d) =>
              /\ last.err = "none"
              /\ Len(last.labels) = last.n

\* fit returned and predict on the features fit was called with returned as
\* many labels as there were training samples
C9_Witness ==
    /\ pc = "idle" /\ FitCallPairValid /\ fitCall.err = "none"
    /\ last.op = "predict" /\ last.err = "none"
    /\ last.n = NSamples(fitCall.X) /\ last.n = MaxSamples
    /\ last.d = fitCall.X.d /\ Len(last.labels) = MaxSamples

\* C10: on a fitted instance every label predict returns is a member of
\* classes_, and classes_ holds the distinct labels of the arguments of the
\* most recent fit that returned.
C10_LabelsFromClasses ==
    (pc = "idle" /\ fitData.done) =>
        /\ Range(obj["classes_"]) = fitData.labels
        /\ obj["classes_"] = SortedSeq(fitData.labels)
        /\ ((last.op = "predict" /\ last.err = "none") =>
              \A i \in DOMAIN last.labels :
                  last.labels[i] \in Range(obj["classes_"]))

\* predict returned labels on an instance whose last fit saw two of the three
\* labels, the largest among them, and returned that label
C10_Witness ==
    /\ pc = "idle" /\ fitData.done /\ fitData.labels = {0, 2}
    /\ obj["classes_"] = <<0, 2>>
    /\ last.op = "predict" /\ last.err = "none"
    /\ last.n >= 1 /\ 2 \in Range(last.labels)

\* the tags an estimator has unless it overrides them (_DEFAULT_TAGS);
\* MyClassifier overrides none
DEFAULT_TAGS ==
    ("non_deterministic" :> FALSE) @@ ("requires_positive_X" :> FALSE)
    @@ ("requires_positive_y" :> FALSE) @@ ("X_types" :> <<"2darray">>)
    @@ ("poor_score" :> FALSE) @@ ("no_validation" :> FALSE)
    @@ ("multioutput" :> FALSE) @@ ("allow_nan" :> FALSE)
    @@ ("stateless" :> FALSE) @@ ("multilabel" :> FALSE)
    @@ ("_skip_test" :> FALSE) @@ ("multioutput_only" :> FALSE)
    @@ ("binary_only" :> FALSE) @@ ("requires_fit" :> TRUE)

\* C11: MyClassifier is tagged deterministic, and whenever the most recent
\* fit that returned on each of two instances had the same parameter C, the
\* same features and the same labels, whatever was called on either before,
\* predict raises the same error or returns the same labels on the two, for
\* every features passed.
C11_SameFitSamePredictions ==
    /\ ~DEFAULT_TAGS["non_deterministic"]
    /\ (pc = "idle" /\ fitArgs.self # NoArgs /\ fitArgs.self = fitArgs.other) =>
          \A X \in Matrices :
              /\ GuardedError(obj, X) = GuardedError(other.obj, X)
              /\ PredictLabels(obj, X) = PredictLabels(other.obj, X)

\* two instances, both last fitted with C=100 on the same arguments, one of
\* them since given another C, predict the same labels
C11_Witness ==
    /\ pc = "idle" /\ fitArgs.self # NoArgs /\ fitArgs.self = fitArgs.other
    /\ fitArgs.self.C = 100 /\ obj["C"] # other.obj["C"]
    /\ \E X \in TwinMatrices :
          /\ GuardedError(obj, X) = "none"
          /\ PredictLabels(obj, X) = PredictLabels(other.obj, X)
          /\ Len(PredictLabels(obj, X)) = NSamples(X)

\* C12: the session has no fail-fast.  Whatever the checks find, every
\* collected check is called at most once and in the order collected, the
\* session finishes, and when it has finished every check has its own entry
\* in the results, those after a failed check included.
C12_NoFailFast ==
    /\ [](\A i \in DOMAIN results : results[i].check = i)
    /\ [](session = "finished" =>
            { results[i].check : i \in DOMAIN results } = 1..NChecks)
    /\ <>(session = "finished")

\* a session finished in which the first check failed and every later check
\* was called
C12_Witness ==
    /\ session = "finished"
    /\ results[1].outcome = "failed"
    /\ Ran = 1..NChecks
    /\ results[NChecks].outcome = "passed"

\* C13 as stated: the search lists 15 candidates, the product of the two
\* lists, fits every one of them once, and returns the pipeline of the first
\* of the best-scoring candidates.
C13_EachFittedOnce ==
    gs.phase = "done" =>
        /\ Len(Candidates) = 15
        /\ \A i \in DOMAIN Candidates : gs.fits[i] = 1
        /\ gs.estimator = WithCandidate(pipe, Candidates[BestIndex(gs.scores)])

\* C13 amended: the search lists 15 candidates, every pair of a C and a k of
\* the two lists exactly once, fits a clone for every candidate once per
\* fold of the cross-validation, and returns the pipeline with the
\* parameters of the best-scoring candidate, the first listed among equals,
\* fitted once more; the pipeline searched over keeps its own parameters.
C13_EachFittedPerFold ==
    /\ Len(Candidates) = 15
    /\ \A c \in Range(GridC), k \in Range(GridK) :
          Cardinality({ i \in DOMAIN Candidates :
                          Candidates[i] = [C |-> c, k |-> k] }) = 1
    /\ pipe = MakePipeline
    /\ gs.phase = "done" =>
          /\ \A i \in DOMAIN Candidates : gs.fits[i] = NSplits
          /\ gs.refits = 1
          /\ \A j \in DOMAIN gs.scores : gs.scores[j] <= gs.scores[gs.best]
          /\ \A j \in 1..(gs.best - 1) : gs.scores[j] < gs.scores[gs.best]
          /\ GetParam(gs.estimator, "selectkbest", "k") = Candidates[gs.best].k
          /\ GetParam(gs.estimator, "myclassifier", "C") = Candidates[gs.best].C

\* a search is done in which the candidates 3 and 7, and no other, scored
\* best: the pipeline returned has the parameters of candidate 3
C13_Witness ==
    /\ gs.phase = "done"
    /\ { i \in DOMAIN gs.scores : gs.scores[i] = 1 } = {3, 7}
    /\ gs.best = 3
    /\ GetParam(gs.estimator, "selectkbest", "k") = 5
    /\ GetParam(gs.estimator, "myclassifier", "C") = 1

\* C14: a set_params call on the pipeline with a path <step>__<param> that
\* names a parameter of a step returns, after it that parameter reads as the
\* value passed, and every other parameter of every step reads as before; a
\* call with a path whose step or parameter does not exist raises
\* UnknownParameterError and leaves the pipeline as it was.
C14_SetParamFrame ==
    [][ LET path == <<pipeLast'.step, pipeLast'.param>>
        IN IF path \in ValidPaths(pipe)
           THEN /\ pipeLast'.err = "none"
                /\ GetParam(pipe', path[1], path[2]) = pipeLast'.value
                /\ ValidPaths(pipe') = ValidPaths(pipe)
                /\ \A q \in ValidPaths(pipe) \ {path} :
                      GetParam(pipe', q[1], q[2]) = GetParam(pipe, q[1], q[2])
           ELSE /\ pipeLast'.err = "UnknownParameterError"
                /\ pipe' = pipe ]_vars

\* k of the selector was set to 5 on the pipeline of line 337: k reads 5, C
\* of the classifier is still 0.1
C14_Witness ==
    /\ pipeLast = [step |-> "selectkbest", param |-> "k", value |-> 5,
                   err |-> "none"]
    /\ GetParam(pipe, "selectkbest", "k") = 5
    /\ GetParam(pipe, "myclassifier", "C") = GetParam(MakePipeline, "myclassifier", "C")

\* C15: two instances constructed alike that have since received the same
\* calls of fit, predict and decision_function, with the logger at any level
\* during each call (DEBUG for one and INFO or NOTSET for the other
\* included), have
\* the same parameter and fitted attributes, and the last call returned the
\* same value or raised the same error on both; the records emitted are all
\* that can differ.
C15_LevelOnlyChangesTrace ==
    (replay.phase = "lead" /\ pc = "idle" /\ replay.op # "none") =>
        /\ obj = other.obj
        /\ fitData = other.fitData
        /\ last = replay.last

\* predict returned labels on both instances; the first call emitted its
\* record, the second, with the logger at INFO, none
C15_Witness ==
    /\ replay.phase = "lead" /\ pc = "idle" /\ replay.op = "predict"
    /\ last.err = "none" /\ Len(last.labels) >= 1 /\ last = replay.last
    /\ level = INFO /\ emitted = <<>> /\ replay.emitted # <<>>
    /\ obj = other.obj /\ AllFitted(obj)

\* C16: a fit call that raises, in check_X_y or in the fit of the wrapped
\* classifier, leaves every attribute of the instance as it was: an instance
\* on which no fit has returned still has neither estimator_ nor classes_,
\* and a fitted one still has both, as the most recent fit that returned
\* left them.
C16_RaisingFitKeepsFitted ==
    [][ (last'.op = "fit" /\ last'.err \notin {"none", "running"}) =>
            /\ obj' = obj
            /\ fitData' = fitData
            /\ (~fitData.done => DOMAIN obj' \cap FittedAttrs = {})
            /\ (fitData.done =>
                   /\ AllFitted(obj')
                   /\ obj'["classes_"] = obj'["estimator_"].classes
                   /\ obj'["estimator_"].d = fitData.d
                   /\ Range(obj'["classes_"]) = fitData.labels) ]_vars

\* the fit of the wrapped classifier raised, on data of another width than
\* that of the fit before, and the instance has the pair of that fit
C16_Witness ==
    /\ pc = "idle" /\ fitData.done
    /\ last.op = "fit" /\ last.err = "FitError" /\ last.d # fitData.d
    /\ AllFitted(obj)
    /\ obj["classes_"] = obj["estimator_"].classes
    /\ obj["estimator_"].d = fitData.d

\* C17: a call of predict or decision_function, returning or raising,
\* leaves the parameter C and the attributes estimator_ and classes_ as they
\* were, so that the instance predicts after it as it did before.
C17_PredictReadOnly ==
    [][ last'.op \in {"predict", "decision_function"} =>
            /\ obj' = obj
            /\ fitData' = fitData
            /\ pc' = "idle" ]_vars

\* decision_function returned scores on a fitted instance, which still has
\* the estimator of its fit
C17_Witness ==
    /\ pc = "idle" /\ fitData.done
    /\ last.op = "decision_function" /\ last.err = "none"
    /\ Len(last.scores) = last.n /\ last.n >= 1
    /\ DOMAIN obj = {"C"} \cup FittedAttrs
    /\ obj["estimator_"].d = last.d

====
